---- MODULE Spec2Model ----
(***************************************************************************)
(* Model of MegaMosquito's Pico Servo Tester (src/main.py).                *)
(*                                                                         *)
(* The firmware is one thread of control (module level loop, settings(),   *)
(* update_one_setting(), run_test()) plus the encoder interrupt, which     *)
(* only changes the position counter returned by r.value().  The main      *)
(* thread observes its environment at two kinds of places only: a read of  *)
(* a button line (b.value()) and a read of the counter (r.value()).  Each  *)
(* action below is one such read together with the statements that follow  *)
(* it up to the next read; pc names the read the thread is about to make.  *)
(* button_pressed() blocks while the line is low: the "..._wait" locations *)
(* are its inner while loop, left by the action that sees the line high.   *)
(***************************************************************************)
EXTENDS Integers, Sequences, FiniteSets, TLC

(* ---- program constants, src/main.py ---- *)
FREQUENCY_MIN == 10
FREQUENCY_MAX == 200
SERVO_MIN_MIN == 0
SERVO_MIN_MAX == 5000
SERVO_MAX_MIN == 5001
SERVO_MAX_MAX == 10000
PWM_ON == 2000
PWM_OFF == 0

(* ---- bounds of the model ---- *)
\* total number of encoder bursts (runs of interrupts between two reads)
MaxMoves == 3
\* a burst that saturates the frequency, the servo minimum, the percentage
\* and the cursors in one go, and the servo maximum in two
BigStep == 2600
\* a burst that stays within every range but the cursors'
MidStep == 28
\* net counter change of one burst
Steps == {-BigStep, -1, BigStep}
\* net counter change of one burst during a run_test() session on its own
ServoSteps == Steps \cup {-MidStep}

VARIABLES
  pc,                 \* location of the main thread
  r_value,            \* the encoder's position counter (r.value())
  moves,              \* number of encoder bursts so far (bounds the model)
  button_yellow,      \* level of the yellow button line, 0 = pressed
  button_blue,        \* level of the blue button line, 0 = pressed
  g_frequency, g_servo_min, g_servo_max, g_powered, g_percent,
  relay,              \* level last written to the relay pin
  pwm_blue,           \* duty last written to the blue indicator
  pwm_green,          \* duty last written to the green indicator
  pwm_servo_freq,     \* frequency last written to the servo PWM
  pwm_servo_duty,     \* duty last written to the servo PWM
  main_which,         \* module level: which
  main_r_val_old,     \* module level: r_val_old
  settings_which,     \* settings(): which
  settings_r_val_old, \* settings(): r_val_old
  settings_keep_going,\* settings(): keep_going
  setting_min,        \* update_one_setting(): setting_min
  setting_max,        \* update_one_setting(): setting_max
  original_value,     \* update_one_setting(): original_value
  value,              \* update_one_setting(): value
  edit_r_val_old,     \* update_one_setting(): r_val_old
  test_r_val_old,     \* run_test(): r_val_old
  test_keep_going,    \* run_test(): keep_going
  pin_clk,            \* level of the encoder's clock pin
  pin_dt,             \* level of the encoder's data pin
  irq_pending,        \* edge interrupts raised and not yet served
  last_state,         \* decoder: the 2-bit pin state of the previous call
  yellow_unreported,  \* history: the latest yellow press is not yet reported
  blue_unreported,    \* history: the latest blue press is not yet reported
  hist                \* history: counter values and deltas of the loops

env == <<r_value, moves, button_yellow, button_blue>>
globals == <<g_frequency, g_servo_min, g_servo_max, g_powered, g_percent>>
outputs == <<relay, pwm_blue, pwm_green, pwm_servo_freq, pwm_servo_duty>>
main_frame == <<main_which, main_r_val_old>>
settings_frame == <<settings_which, settings_r_val_old, settings_keep_going>>
edit_frame == <<setting_min, setting_max, original_value, value, edit_r_val_old>>
test_frame == <<test_r_val_old, test_keep_going>>
decoder == <<pin_clk, pin_dt, irq_pending, last_state>>
reports == <<yellow_unreported, blue_unreported>>
vars == <<pc, env, globals, outputs, main_frame, settings_frame, edit_frame,
          test_frame, decoder, reports, hist>>

(* ---- pure helpers ---- *)
PyMin(a, b) == IF a < b THEN a ELSE b
PyMax(a, b) == IF a > b THEN a ELSE b

\* clamp as it would be without the upper limit
clamp_no_upper(val, val_min, val_max) == PyMax(val_min, val)

\* def clamp(val, val_min, val_max): return max(val_min, min(val, val_max))
clamp(val, val_min, val_max) == PyMax(val_min, PyMin(val, val_max))

(* ---- single precision arithmetic of update_servo ----------------------- *)
(* MicroPython on the Pico computes with IEEE single precision floats       *)
(* (24 bit significand, round to nearest, ties to even).  A positive float  *)
(* is the record [m, e] with value m * 2^(-e) and 2^23 <= m < 2^24.         *)

\* q + rem/den rounded to the nearest integer, ties to even
RoundNearestEven(q, rem, den) ==
  IF 2 * rem > den \/ (2 * rem = den /\ q % 2 = 1) THEN q + 1 ELSE q

\* a significand that rounded up to 2^24 is renormalised
F32Normalize(m, e) ==
  IF m = 2^24 THEN [m |-> 2^23, e |-> e - 1] ELSE [m |-> m, e |-> e]

\* number of bits of the positive integer k (k < 2^15)
BitLen(k) == CHOOSE n \in 1..15 : k < 2^n /\ k >= 2^(n - 1)

\* fraction = g_percent / 100.0, for g_percent in 1..100
fraction(percent) ==
  LET j == CHOOSE i \in 0..7 :
             percent * 2^i >= 100 /\ (i = 0 \/ percent * 2^(i - 1) < 100)
      e == 23 + j
      n == percent * 2^e
  IN  F32Normalize(RoundNearestEven(n \div 100, n % 100, 100), e)

\* fraction * (g_servo_max - g_servo_min): float times integer range in
\* 1..10000; the 38 bit product is kept in two limbs hi * 2^12 + lo
F32MulInt(x, range) ==
  LET a == x.m \div 4096
      b == x.m % 4096
      t == b * range
      lo == t % 4096
      hi == a * range + t \div 4096
      s == CHOOSE k \in 0..15 :
             hi < 2^(12 + k) /\ (k = 0 \/ hi >= 2^(11 + k))
      q == IF s >= 12 THEN hi \div 2^(s - 12)
                      ELSE hi * 2^(12 - s) + lo \div 2^s
      rem == IF s >= 12 THEN (hi % 2^(s - 12)) * 4096 + lo
                        ELSE lo % 2^s
  IN  F32Normalize(RoundNearestEven(q, rem, 2^s), x.e - s)

\* int(g_servo_min + x): the float sum rounded to 24 bits, then truncated
F32AddIntTrunc(n, x) ==
  LET I == x.m \div 2^(x.e)
      F == x.m % 2^(x.e)
      K == n + I
      f == 24 - BitLen(K)
      d == x.e - f
  IN  IF K = 0 THEN 0
      ELSE IF x.e <= f THEN K
      ELSE IF RoundNearestEven(F \div 2^d, F % 2^d, 2^d) = 2^f THEN K + 1
      ELSE K

\* duty = int(g_servo_min + fraction * (g_servo_max - g_servo_min))
duty(percent, servo_min, servo_max) ==
  IF percent = 0 THEN servo_min
  ELSE F32AddIntTrunc(servo_min,
                      F32MulInt(fraction(percent), servo_max - servo_min))

\* the 2-bit pin state the decoder works on: clock pin high bit, data pin low
PinState(clk, dt) == 2 * clk + dt

\* history variables at power-up: nothing read, nothing applied
NoHistory ==
  [main_base |-> 0, main_sum |-> 0, main_nested |-> 0, help_from |-> 0,
   settings_base |-> 0, settings_sum |-> 0, settings_nested |-> 0,
   edit_base |-> 0, edit_sum |-> 0, test_base |-> 0, test_sum |-> 0]

(* ---- initial state: module level code up to the RotaryIRQ object ------- *)
Init ==
  /\ pc = "main_start"
  /\ r_value = 0
  /\ moves = 0
  /\ button_yellow = 1
  /\ button_blue = 1
  /\ g_frequency = 50
  /\ g_servo_min = 2500
  /\ g_servo_max = 8750
  /\ g_powered = FALSE
  /\ g_percent = 50
  \* relay = Pin(PIN_RELAY, Pin.OUT) writes no level: the line keeps the
  \* level of the output latch, which is 0 after power-up
  /\ relay = 0
  /\ pwm_blue = PWM_OFF
  /\ pwm_green = PWM_OFF
  /\ pwm_servo_freq = 0
  /\ pwm_servo_duty = 0
  /\ main_which = 0
  /\ main_r_val_old = 0
  /\ settings_which = 0
  /\ settings_r_val_old = 0
  /\ settings_keep_going = FALSE
  /\ setting_min = 0
  /\ setting_max = 0
  /\ original_value = 0
  /\ value = 0
  /\ edit_r_val_old = 0
  /\ test_r_val_old = 0
  /\ test_keep_going = FALSE
  /\ pin_clk = 1
  /\ pin_dt = 1
  /\ irq_pending = 0
  /\ last_state = PinState(1, 1)
  /\ yellow_unreported = FALSE
  /\ blue_unreported = FALSE
  /\ hist = NoHistory

(* ---- environment ------------------------------------------------------- *)
\* A run of encoder interrupts between two reads of the main thread: the
\* handler adds +1 or -1 to the counter per step and touches nothing else.
EncoderMove(d) ==
  /\ moves < MaxMoves
  /\ r_value' = r_value + d
  /\ moves' = moves + 1
  /\ UNCHANGED <<pc, button_yellow, button_blue, globals, outputs, main_frame,
                 settings_frame, edit_frame, test_frame, decoder, reports,
                 hist>>

PressYellow ==
  /\ button_yellow = 1
  /\ button_yellow' = 0
  /\ yellow_unreported' = TRUE
  /\ UNCHANGED <<pc, r_value, moves, button_blue, globals, outputs, main_frame,
                 settings_frame, edit_frame, test_frame, decoder, blue_unreported,
                 hist>>

ReleaseYellow ==
  /\ button_yellow = 0
  /\ button_yellow' = 1
  /\ UNCHANGED <<pc, r_value, moves, button_blue, globals, outputs, main_frame,
                 settings_frame, edit_frame, test_frame, decoder, reports,
                 hist>>

PressBlue ==
  /\ button_blue = 1
  /\ button_blue' = 0
  /\ blue_unreported' = TRUE
  /\ UNCHANGED <<pc, r_value, moves, button_yellow, globals, outputs,
                 main_frame, settings_frame, edit_frame, test_frame, decoder,
                 yellow_unreported, hist>>

ReleaseBlue ==
  /\ button_blue = 0
  /\ button_blue' = 1
  /\ UNCHANGED <<pc, r_value, moves, button_yellow, globals, outputs,
                 main_frame, settings_frame, edit_frame, test_frame, decoder,
                 reports, hist>>

(* ---- module level loop, main.py 293-331 -------------------------------- *)
\* r_val_old = r.value(); which = 0; show_main_menu(which)
MainStart ==
  /\ pc = "main_start"
  /\ main_r_val_old' = r_value
  /\ main_which' = 0
  /\ pc' = "main_blue"
  /\ hist' = [hist EXCEPT !.main_base = r_value, !.main_sum = 0]
  /\ UNCHANGED <<env, globals, outputs, settings_frame, edit_frame, test_frame,
                 decoder, reports>>

\* sleep_ms(50); both indicators off; button_pressed(button_blue), first read
MainPollBlue ==
  /\ pc = "main_blue"
  /\ pwm_green' = PWM_OFF
  /\ pwm_blue' = PWM_OFF
  /\ pc' = IF button_blue = 0 THEN "main_blue_wait" ELSE "main_rotary"
  /\ UNCHANGED <<env, globals, relay, pwm_servo_freq, pwm_servo_duty,
                 main_frame, settings_frame, edit_frame, test_frame, decoder,
                 reports, hist>>

\* button_pressed(button_blue) sees the release and returns True; dispatch
MainSelect ==
  /\ pc = "main_blue_wait"
  /\ button_blue = 1
  /\ pc' = IF main_which = 0 THEN "settings_entry"
           ELSE IF main_which = 1 THEN "test_entry"
           ELSE "help_yellow"
  /\ blue_unreported' = FALSE
  /\ hist' = [hist EXCEPT !.help_from = IF main_which = 2 THEN r_value ELSE @]
  /\ UNCHANGED <<env, globals, outputs, main_frame, settings_frame, edit_frame,
                 test_frame, decoder, yellow_unreported>>

\* while not button_pressed(button_yellow): sleep_ms(50) -- the line is low
HelpPollYellow ==
  /\ pc = "help_yellow"
  /\ button_yellow = 0
  /\ pc' = "help_yellow_wait"
  /\ UNCHANGED <<env, globals, outputs, main_frame, settings_frame, edit_frame,
                 test_frame, decoder, reports, hist>>

\* button_pressed(button_yellow) returns True; show_main_menu(which)
HelpExit ==
  /\ pc = "help_yellow_wait"
  /\ button_yellow = 1
  /\ pc' = "main_rotary"
  /\ yellow_unreported' = FALSE
  /\ hist' = [hist EXCEPT !.main_nested = hist.help_from - r_value,
                          !.help_from = 0]
  /\ UNCHANGED <<env, globals, outputs, main_frame, settings_frame, edit_frame,
                 test_frame, decoder, blue_unreported>>

\* MainRotary with the cursor limited to [0, 3]
MainRotary_limit_3 ==
  /\ pc = "main_rotary"
  /\ LET r_val_new == r_value
         diff == main_r_val_old - r_val_new
     IN  IF main_r_val_old # r_val_new
         THEN /\ main_r_val_old' = r_val_new
              /\ main_which' = clamp(main_which + diff, 0, 3)
              /\ hist' = [hist EXCEPT !.main_sum = @ + diff,
                                      !.main_nested = 0]
         ELSE /\ UNCHANGED main_frame
              /\ hist' = [hist EXCEPT !.main_nested = 0]
  /\ pc' = "main_blue"
  /\ UNCHANGED <<env, globals, outputs, settings_frame, edit_frame, test_frame,
                 decoder, reports>>

\* r_val_new = r.value(); if changed: which = clamp(which + diff, 0, 2)
MainRotary ==
  /\ pc = "main_rotary"
  /\ LET r_val_new == r_value
         diff == main_r_val_old - r_val_new
     IN  IF main_r_val_old # r_val_new
         THEN /\ main_r_val_old' = r_val_new
              /\ main_which' = clamp(main_which + diff, 0, 2)
              /\ hist' = [hist EXCEPT !.main_sum = @ + diff,
                                      !.main_nested = 0]
         ELSE /\ UNCHANGED main_frame
              /\ hist' = [hist EXCEPT !.main_nested = 0]
  /\ pc' = "main_blue"
  /\ UNCHANGED <<env, globals, outputs, settings_frame, edit_frame, test_frame,
                 decoder, reports>>

(* ---- settings(), main.py 245-274 --------------------------------------- *)
\* keep_going = True; r_val_old = r.value(); which = 0
SettingsEntry ==
  /\ pc = "settings_entry"
  /\ settings_keep_going' = TRUE
  /\ settings_r_val_old' = r_value
  /\ settings_which' = 0
  /\ pc' = "set_yellow"
  /\ hist' = [hist EXCEPT !.settings_base = r_value, !.settings_sum = 0]
  /\ UNCHANGED <<env, globals, outputs, main_frame, edit_frame, test_frame,
                 decoder, reports>>

\* sleep_ms(50); button_pressed(button_yellow), first read
SettingsPollYellow ==
  /\ pc = "set_yellow"
  /\ pc' = IF button_yellow = 0 THEN "set_yellow_wait" ELSE "set_blue"
  /\ UNCHANGED <<env, globals, outputs, main_frame, settings_frame, edit_frame,
                 test_frame, decoder, reports, hist>>

\* button_pressed(button_yellow) returns True: keep_going = False
SettingsGoBack ==
  /\ pc = "set_yellow_wait"
  /\ button_yellow = 1
  /\ settings_keep_going' = FALSE
  /\ pc' = "set_blue"
  /\ yellow_unreported' = FALSE
  /\ UNCHANGED <<env, globals, outputs, main_frame, settings_which,
                 settings_r_val_old, edit_frame, test_frame, decoder,
                 blue_unreported, hist>>

\* button_pressed(button_blue), first read
SettingsPollBlue ==
  /\ pc = "set_blue"
  /\ pc' = IF button_blue = 0 THEN "set_blue_wait" ELSE "set_rotary"
  /\ UNCHANGED <<env, globals, outputs, main_frame, settings_frame, edit_frame,
                 test_frame, decoder, reports, hist>>

\* button_pressed(button_blue) returns True: set_frequency() / set_min() /
\* set_max() is called
SettingsSelect ==
  /\ pc = "set_blue_wait"
  /\ button_blue = 1
  /\ pc' = "edit_entry"
  /\ blue_unreported' = FALSE
  /\ UNCHANGED <<env, globals, outputs, main_frame, settings_frame, edit_frame,
                 test_frame, decoder, yellow_unreported, hist>>

\* setting_args with the frequency limited by the servo minimum's upper limit
setting_args_wide(which) ==
  IF which = 0
  THEN [min |-> FREQUENCY_MIN, max |-> SERVO_MIN_MAX, original |-> g_frequency]
  ELSE IF which = 1
  THEN [min |-> SERVO_MIN_MIN, max |-> SERVO_MIN_MAX, original |-> g_servo_min]
  ELSE [min |-> SERVO_MAX_MIN, max |-> SERVO_MAX_MAX, original |-> g_servo_max]

\* the arguments set_frequency(), set_min() and set_max() pass on
setting_args(which) ==
  IF which = 0
  THEN [min |-> FREQUENCY_MIN, max |-> FREQUENCY_MAX, original |-> g_frequency]
  ELSE IF which = 1
  THEN [min |-> SERVO_MIN_MIN, max |-> SERVO_MIN_MAX, original |-> g_servo_min]
  ELSE [min |-> SERVO_MAX_MIN, max |-> SERVO_MAX_MAX, original |-> g_servo_max]

\* store_setting with set_min() assigning to g_servo_max
store_setting_wrong_global(which, result) ==
  IF which = 0 THEN <<result, g_servo_min, g_servo_max>>
  ELSE <<g_frequency, g_servo_min, result>>

\* the global that set_frequency(), set_min() and set_max() assign the
\* returned value to: the Settings after the assignment
store_setting(which, result) ==
  IF which = 0 THEN <<result, g_servo_min, g_servo_max>>
  ELSE IF which = 1 THEN <<g_frequency, result, g_servo_max>>
  ELSE <<g_frequency, g_servo_min, result>>

\* r_val_new = r.value(); if changed: which = clamp(which + diff, 0, 2);
\* then the test of "while keep_going"
SettingsRotary ==
  /\ pc = "set_rotary"
  /\ LET r_val_new == r_value
         diff == settings_r_val_old - r_val_new
         changed == settings_r_val_old # r_val_new
     IN  IF settings_keep_going
         THEN /\ settings_r_val_old' = r_val_new
              /\ settings_which' = IF changed
                                   THEN clamp(settings_which + diff, 0, 2)
                                   ELSE settings_which
              /\ UNCHANGED settings_keep_going
              /\ pc' = "set_yellow"
              /\ hist' = [hist EXCEPT
                            !.settings_sum = IF changed THEN @ + diff ELSE @,
                            !.settings_nested = 0]
         ELSE \* settings() returns; show_main_menu(which)
              /\ settings_r_val_old' = 0
              /\ settings_which' = 0
              /\ UNCHANGED settings_keep_going
              /\ pc' = "main_rotary"
              /\ hist' = [hist EXCEPT
                            !.main_nested = hist.settings_base - r_value,
                            !.settings_base = 0, !.settings_sum = 0,
                            !.settings_nested = 0]
  /\ UNCHANGED <<env, globals, outputs, main_frame, edit_frame, test_frame,
                 decoder, reports>>

(* ---- update_one_setting(), main.py 188-208 ----------------------------- *)
\* r_val_old = r.value(); value = original_value
EditEntry ==
  /\ pc = "edit_entry"
  /\ LET args == setting_args(settings_which)
     IN  /\ setting_min' = args.min
         /\ setting_max' = args.max
         /\ original_value' = args.original
         /\ value' = args.original
  /\ edit_r_val_old' = r_value
  /\ pc' = "edit_yellow"
  /\ hist' = [hist EXCEPT !.edit_base = r_value, !.edit_sum = 0]
  /\ UNCHANGED <<env, globals, outputs, main_frame, settings_frame, test_frame,
                 decoder, reports>>

\* button_pressed(button_yellow), first read
EditPollYellow ==
  /\ pc = "edit_yellow"
  /\ pc' = IF button_yellow = 0 THEN "edit_yellow_wait" ELSE "edit_blue"
  /\ UNCHANGED <<env, globals, outputs, main_frame, settings_frame, edit_frame,
                 test_frame, decoder, reports, hist>>

\* cancel returning the edited value
cancel_result_edited == value

\* return original_value
cancel_result == original_value

\* return value
okay_result == value

\* update_one_setting() returns result; the caller stores it and settings()
\* goes on with show_settings_menu(which)
EditReturn(result) ==
  /\ g_frequency' = store_setting(settings_which, result)[1]
  /\ g_servo_min' = store_setting(settings_which, result)[2]
  /\ g_servo_max' = store_setting(settings_which, result)[3]
  /\ setting_min' = 0
  /\ setting_max' = 0
  /\ original_value' = 0
  /\ value' = 0
  /\ edit_r_val_old' = 0
  /\ pc' = "set_rotary"
  /\ hist' = [hist EXCEPT !.settings_nested = hist.edit_base - r_value,
                          !.edit_base = 0, !.edit_sum = 0]
  /\ UNCHANGED <<env, g_powered, g_percent, outputs, main_frame,
                 settings_frame, test_frame, decoder>>

\* button_pressed(button_yellow) returns True: cancel
EditCancel ==
  /\ pc = "edit_yellow_wait"
  /\ button_yellow = 1
  /\ yellow_unreported' = FALSE
  /\ UNCHANGED blue_unreported
  /\ EditReturn(cancel_result)

\* button_pressed(button_blue), first read
EditPollBlue ==
  /\ pc = "edit_blue"
  /\ pc' = IF button_blue = 0 THEN "edit_blue_wait" ELSE "edit_rotary"
  /\ UNCHANGED <<env, globals, outputs, main_frame, settings_frame, edit_frame,
                 test_frame, decoder, reports, hist>>

\* button_pressed(button_blue) returns True: okay
EditOkay ==
  /\ pc = "edit_blue_wait"
  /\ button_blue = 1
  /\ blue_unreported' = FALSE
  /\ UNCHANGED yellow_unreported
  /\ EditReturn(okay_result)

\* EditRotary without r_val_old = r_val_new
EditRotary_keep_baseline ==
  /\ pc = "edit_rotary"
  /\ LET r_val_new == r_value
         diff == edit_r_val_old - r_val_new
     IN  IF edit_r_val_old # r_val_new
         THEN /\ value' = clamp(value + diff, setting_min, setting_max)
              /\ hist' = [hist EXCEPT !.edit_sum = @ + diff]
              /\ UNCHANGED edit_r_val_old
         ELSE UNCHANGED <<edit_r_val_old, value, hist>>
  /\ pc' = "edit_yellow"
  /\ UNCHANGED <<env, globals, outputs, main_frame, settings_frame,
                 setting_min, setting_max, original_value, test_frame, decoder,
                 reports>>

\* EditRotary with diff = r_val_new - r_val_old
EditRotary_new_minus_old ==
  /\ pc = "edit_rotary"
  /\ LET r_val_new == r_value
         diff == r_val_new - edit_r_val_old
     IN  IF edit_r_val_old # r_val_new
         THEN /\ edit_r_val_old' = r_val_new
              /\ value' = clamp(value + diff, setting_min, setting_max)
              /\ hist' = [hist EXCEPT !.edit_sum = @ + diff]
         ELSE UNCHANGED <<edit_r_val_old, value, hist>>
  /\ pc' = "edit_yellow"
  /\ UNCHANGED <<env, globals, outputs, main_frame, settings_frame,
                 setting_min, setting_max, original_value, test_frame, decoder,
                 reports>>

\* r_val_new = r.value(); if changed:
\*   value = clamp(value + diff, setting_min, setting_max)
EditRotary ==
  /\ pc = "edit_rotary"
  /\ LET r_val_new == r_value
         diff == edit_r_val_old - r_val_new
     IN  IF edit_r_val_old # r_val_new
         THEN /\ edit_r_val_old' = r_val_new
              /\ value' = clamp(value + diff, setting_min, setting_max)
              /\ hist' = [hist EXCEPT !.edit_sum = @ + diff]
         ELSE UNCHANGED <<edit_r_val_old, value, hist>>
  /\ pc' = "edit_yellow"
  /\ UNCHANGED <<env, globals, outputs, main_frame, settings_frame,
                 setting_min, setting_max, original_value, test_frame, decoder,
                 reports>>

(* ---- run_test(), main.py 114-175 --------------------------------------- *)
\* relay_level with the two levels exchanged
relay_level_inverted(powered) == IF powered THEN 1 ELSE 0

\* relay level written by the power toggle (relay.value(0) when powered)
relay_level(powered) == IF powered THEN 0 ELSE 1

\* indicator with blue left on when power is switched on
indicator_blue_stays(powered) ==
  IF powered THEN <<PWM_ON, PWM_ON>> ELSE <<PWM_ON, PWM_OFF>>

\* indicator duties written by the power toggle: <<blue, green>>
indicator(powered) ==
  IF powered THEN <<PWM_OFF, PWM_ON>> ELSE <<PWM_ON, PWM_OFF>>

\* add_percent with the upper limit mistyped as 200
add_percent_limit_200(percent, diff) ==
  LET p1 == percent + diff
      p2 == IF p1 < 0 THEN 0 ELSE p1
  IN  IF p2 > 200 THEN 200 ELSE p2

\* g_percent += diff; if g_percent < 0: 0; if g_percent > 100: 100
add_percent(percent, diff) ==
  LET p1 == percent + diff
      p2 == IF p1 < 0 THEN 0 ELSE p1
  IN  IF p2 > 100 THEN 100 ELSE p2

\* RunTestEntry without "g_percent = 50"
RunTestEntry_keep_percent ==
  /\ pc = "test_entry"
  /\ pwm_servo_freq' = g_frequency
  /\ g_powered' = FALSE
  /\ relay' = 1
  /\ pwm_blue' = PWM_ON
  /\ pwm_green' = PWM_OFF
  /\ pwm_servo_duty' = duty(g_percent, g_servo_min, g_servo_max)
  /\ test_r_val_old' = r_value
  /\ test_keep_going' = TRUE
  /\ pc' = "test_yellow"
  /\ hist' = [hist EXCEPT !.test_base = r_value, !.test_sum = 0]
  /\ UNCHANGED <<env, g_frequency, g_servo_min, g_servo_max, g_percent,
                 main_frame, settings_frame, edit_frame, decoder, reports>>

\* pwm_servo.freq(g_frequency); g_percent = 50; g_powered = False;
\* relay.value(1); blue on, green off; update_servo(); r_val_old = r.value()
RunTestEntry ==
  /\ pc = "test_entry"
  /\ pwm_servo_freq' = g_frequency
  /\ g_percent' = 50
  /\ g_powered' = FALSE
  /\ relay' = 1
  /\ pwm_blue' = PWM_ON
  /\ pwm_green' = PWM_OFF
  /\ pwm_servo_duty' = duty(50, g_servo_min, g_servo_max)
  /\ test_r_val_old' = r_value
  /\ test_keep_going' = TRUE
  /\ pc' = "test_yellow"
  /\ hist' = [hist EXCEPT !.test_base = r_value, !.test_sum = 0]
  /\ UNCHANGED <<env, g_frequency, g_servo_min, g_servo_max, main_frame,
                 settings_frame, edit_frame, decoder, reports>>

\* sleep_ms(50); button_pressed(button_yellow), first read
TestPollYellow ==
  /\ pc = "test_yellow"
  /\ pc' = IF button_yellow = 0 THEN "test_yellow_wait" ELSE "test_blue"
  /\ UNCHANGED <<env, globals, outputs, main_frame, settings_frame, edit_frame,
                 test_frame, decoder, reports, hist>>

\* button_pressed(button_yellow) returns True: green off; keep_going = False
TestGoBack ==
  /\ pc = "test_yellow_wait"
  /\ button_yellow = 1
  /\ pwm_green' = PWM_OFF
  /\ test_keep_going' = FALSE
  /\ pc' = "test_blue"
  /\ yellow_unreported' = FALSE
  /\ UNCHANGED <<env, globals, relay, pwm_blue, pwm_servo_freq, pwm_servo_duty,
                 main_frame, settings_frame, edit_frame, test_r_val_old,
                 decoder, blue_unreported, hist>>

\* button_pressed(button_blue), first read
TestPollBlue ==
  /\ pc = "test_blue"
  /\ pc' = IF button_blue = 0 THEN "test_blue_wait" ELSE "test_rotary"
  /\ UNCHANGED <<env, globals, outputs, main_frame, settings_frame, edit_frame,
                 test_frame, decoder, reports, hist>>

\* TestToggle with button_pressed() returning True without the wait for
\* the release
TestToggle_no_wait ==
  /\ pc = "test_blue_wait"
  /\ g_powered' = ~g_powered
  /\ pwm_blue' = indicator(~g_powered)[1]
  /\ pwm_green' = indicator(~g_powered)[2]
  /\ relay' = relay_level(~g_powered)
  /\ pwm_servo_duty' = duty(g_percent, g_servo_min, g_servo_max)
  /\ pc' = "test_rotary"
  /\ blue_unreported' = FALSE
  /\ UNCHANGED <<env, g_frequency, g_servo_min, g_servo_max, g_percent,
                 pwm_servo_freq, main_frame, settings_frame, edit_frame,
                 test_frame, decoder, yellow_unreported, hist>>

\* button_pressed(button_blue) returns True: g_powered = not g_powered;
\* indicators and relay follow; show_test_details(); update_servo()
TestToggle ==
  /\ pc = "test_blue_wait"
  /\ button_blue = 1
  /\ g_powered' = ~g_powered
  /\ pwm_blue' = indicator(~g_powered)[1]
  /\ pwm_green' = indicator(~g_powered)[2]
  /\ relay' = relay_level(~g_powered)
  /\ pwm_servo_duty' = duty(g_percent, g_servo_min, g_servo_max)
  /\ pc' = "test_rotary"
  /\ blue_unreported' = FALSE
  /\ UNCHANGED <<env, g_frequency, g_servo_min, g_servo_max, g_percent,
                 pwm_servo_freq, main_frame, settings_frame, edit_frame,
                 test_frame, decoder, yellow_unreported, hist>>

\* TestRotary without the update_servo() after a change of g_percent
TestRotary_stale_duty ==
  /\ pc = "test_rotary"
  /\ LET r_val_new == r_value
         diff == test_r_val_old - r_val_new
     IN  IF test_r_val_old # r_val_new
         THEN /\ test_r_val_old' = r_val_new
              /\ g_percent' = add_percent(g_percent, diff)
              /\ hist' = [hist EXCEPT !.test_sum = @ + diff]
         ELSE UNCHANGED <<test_r_val_old, g_percent, hist>>
  /\ pc' = IF test_keep_going THEN "test_yellow" ELSE "test_exit"
  /\ UNCHANGED <<env, g_frequency, g_servo_min, g_servo_max, g_powered, relay,
                 pwm_blue, pwm_green, pwm_servo_freq, pwm_servo_duty,
                 main_frame, settings_frame, edit_frame, test_keep_going,
                 decoder, reports>>

\* r_val_new = r.value(); if changed: g_percent += diff, saturated;
\* show_test_details(); update_servo(); then the test of "while keep_going"
TestRotary ==
  /\ pc = "test_rotary"
  /\ LET r_val_new == r_value
         diff == test_r_val_old - r_val_new
     IN  IF test_r_val_old # r_val_new
         THEN /\ test_r_val_old' = r_val_new
              /\ g_percent' = add_percent(g_percent, diff)
              /\ pwm_servo_duty' =
                   duty(add_percent(g_percent, diff), g_servo_min, g_servo_max)
              /\ hist' = [hist EXCEPT !.test_sum = @ + diff]
         ELSE UNCHANGED <<test_r_val_old, g_percent, pwm_servo_duty, hist>>
  /\ pc' = IF test_keep_going THEN "test_yellow" ELSE "test_exit"
  /\ UNCHANGED <<env, g_frequency, g_servo_min, g_servo_max, g_powered, relay,
                 pwm_blue, pwm_green, pwm_servo_freq, main_frame,
                 settings_frame, edit_frame, test_keep_going, decoder,
                 reports>>

\* RunTestExit without the final relay.value(1)
RunTestExit_no_relay ==
  /\ pc = "test_exit"
  /\ pwm_blue' = PWM_OFF
  /\ pwm_green' = PWM_OFF
  /\ g_powered' = FALSE
  /\ test_r_val_old' = 0
  /\ test_keep_going' = FALSE
  /\ pc' = "main_rotary"
  /\ hist' = [hist EXCEPT !.main_nested = hist.test_base - r_value,
                          !.test_base = 0, !.test_sum = 0]
  /\ UNCHANGED <<env, g_frequency, g_servo_min, g_servo_max, g_percent, relay,
                 pwm_servo_freq, pwm_servo_duty, main_frame, settings_frame,
                 edit_frame, decoder, reports>>

\* after the loop: both indicators off; g_powered = False; relay.value(1);
\* run_test() returns; show_main_menu(which)
RunTestExit ==
  /\ pc = "test_exit"
  /\ pwm_blue' = PWM_OFF
  /\ pwm_green' = PWM_OFF
  /\ g_powered' = FALSE
  /\ relay' = 1
  /\ test_r_val_old' = 0
  /\ test_keep_going' = FALSE
  /\ pc' = "main_rotary"
  /\ hist' = [hist EXCEPT !.main_nested = hist.test_base - r_value,
                          !.test_base = 0, !.test_sum = 0]
  /\ UNCHANGED <<env, g_frequency, g_servo_min, g_servo_max, g_percent,
                 pwm_servo_freq, pwm_servo_duty, main_frame, settings_frame,
                 edit_frame, decoder, reports>>

(* ---- specification ----------------------------------------------------- *)
Next ==
  \/ \E d \in Steps : EncoderMove(d)
  \/ PressYellow
  \/ ReleaseYellow
  \/ PressBlue
  \/ ReleaseBlue
  \/ MainStart
  \/ MainPollBlue
  \/ MainSelect
  \/ HelpPollYellow
  \/ HelpExit
  \/ MainRotary
  \/ SettingsEntry
  \/ SettingsPollYellow
  \/ SettingsGoBack
  \/ SettingsPollBlue
  \/ SettingsSelect
  \/ SettingsRotary
  \/ EditEntry
  \/ EditPollYellow
  \/ EditCancel
  \/ EditPollBlue
  \/ EditOkay
  \/ EditRotary
  \/ RunTestEntry
  \/ TestPollYellow
  \/ TestGoBack
  \/ TestPollBlue
  \/ TestToggle
  \/ TestRotary
  \/ RunTestExit

Spec == Init /\ [][Next]_vars

\* the locations of the main thread
Locations ==
  {"main_start", "main_blue", "main_blue_wait", "main_rotary",
   "help_yellow", "help_yellow_wait",
   "settings_entry", "set_yellow", "set_yellow_wait", "set_blue",
   "set_blue_wait", "set_rotary",
   "edit_entry", "edit_yellow", "edit_yellow_wait", "edit_blue",
   "edit_blue_wait", "edit_rotary",
   "test_entry", "test_yellow", "test_yellow_wait", "test_blue",
   "test_blue_wait", "test_rotary", "test_exit"}

\* the main thread makes no progress: button_pressed() is in its
\* "while b.value() == 0" loop with the line low, or the help screen polls
\* yellow with the line high
MainBlocked ==
  \/ /\ pc \in {"help_yellow_wait", "set_yellow_wait", "edit_yellow_wait",
                "test_yellow_wait"}
     /\ button_yellow = 0
  \/ /\ pc \in {"main_blue_wait", "set_blue_wait", "edit_blue_wait",
                "test_blue_wait"}
     /\ button_blue = 0
  \/ /\ pc = "help_yellow"
     /\ button_yellow = 1

\* a step of the main thread, by its location alone: every step of the main
\* thread changes pc and no other step does
MainSteps == ~MainBlocked /\ pc' \in Locations

\* main.py has one thread and nothing suspends it: a statement that can run
\* does run, and a wait for a release that finds the line high again and
\* again ends.  Every pressed button is released.
FairSpec ==
  /\ Init
  /\ [][Next]_vars
  /\ SF_pc(MainSteps)
  /\ WF_vars(ReleaseYellow)
  /\ WF_vars(ReleaseBlue)

(* ---- one ServoTest session --------------------------------------------- *)
\* Settings the settings menu can leave behind: the defaults and the limits
\* of the two servo ranges
ServoMinValues == {SERVO_MIN_MIN, 2500, SERVO_MIN_MAX}
ServoMaxValues == {SERVO_MAX_MIN, 8750, SERVO_MAX_MAX}

\* The main loop has just selected ServoTest ("elif which == 1: run_test()"):
\* the blue button is released, both indicators were turned off by the main
\* loop, Settings are whatever earlier edit sessions stored, and g_percent,
\* g_powered, relay and the servo PWM are as an earlier session (or the
\* start-up) left them.
InitServo ==
  /\ pc = "test_entry"
  /\ r_value = 0
  /\ moves = 0
  /\ button_yellow = 1
  /\ button_blue = 1
  /\ g_frequency = 50
  /\ g_servo_min \in ServoMinValues
  /\ g_servo_max \in ServoMaxValues
  /\ g_powered = FALSE
  /\ g_percent \in {0, 50}
  /\ relay \in {0, 1}
  /\ pwm_blue = PWM_OFF
  /\ pwm_green = PWM_OFF
  /\ pwm_servo_freq = 0
  /\ pwm_servo_duty = 0
  /\ main_which = 1
  /\ main_r_val_old = 0
  /\ settings_which = 0
  /\ settings_r_val_old = 0
  /\ settings_keep_going = FALSE
  /\ setting_min = 0
  /\ setting_max = 0
  /\ original_value = 0
  /\ value = 0
  /\ edit_r_val_old = 0
  /\ test_r_val_old = 0
  /\ test_keep_going = FALSE
  /\ pin_clk = 1
  /\ pin_dt = 1
  /\ irq_pending = 0
  /\ last_state = PinState(1, 1)
  /\ yellow_unreported = FALSE
  /\ blue_unreported = FALSE
  /\ hist = NoHistory

\* run_test() from its call to its return, with the encoder and the buttons
NextServo ==
  \/ \E d \in ServoSteps : EncoderMove(d)
  \/ PressYellow
  \/ ReleaseYellow
  \/ PressBlue
  \/ ReleaseBlue
  \/ RunTestEntry
  \/ TestPollYellow
  \/ TestGoBack
  \/ TestPollBlue
  \/ TestToggle
  \/ TestRotary
  \/ RunTestExit

SpecServo == InitServo /\ [][NextServo]_vars

(* ---- the quadrature decoder: RotaryIRQ, rotary_irq_pico.py -------------- *)
\* min_val and max_val passed to RotaryIRQ
MIN_VAL == 0
MAX_VAL == 100

\* the pins stop moving once the counter is this far from 0
MaxCount == 102
\* edge interrupts that can be waiting for the handler
MaxPending == 2

\* the state that follows s in the Gray-code cycle 00 -> 01 -> 11 -> 10 -> 00
GrayNext(s) ==
  CASE s = 0 -> 1
    [] s = 1 -> 3
    [] s = 3 -> 2
    [] s = 2 -> 0

\* transition with a two-step jump counted as a step
transition_counts_jumps(old, new) ==
  IF new = GrayNext(old) \/ new = GrayNext(GrayNext(old)) THEN 1
  ELSE IF old = GrayNext(new) THEN -1
  ELSE 0

\* the quadrature transition table: the counter change for the previous and
\* the new 2-bit state
transition(old, new) ==
  IF new = GrayNext(old) THEN 1
  ELSE IF old = GrayNext(new) THEN -1
  ELSE 0

\* range_mode = RotaryIRQ.RANGE_UNBOUNDED: the counter is stored as it is
unbounded_range(val) == val

\* an edge on the clock pin raises the interrupt of that pin
ClkEdge ==
  /\ -MaxCount < r_value /\ r_value < MaxCount
  /\ irq_pending < MaxPending
  /\ pin_clk' = 1 - pin_clk
  /\ irq_pending' = irq_pending + 1
  /\ UNCHANGED <<pc, env, globals, outputs, main_frame, settings_frame,
                 edit_frame, test_frame, pin_dt, last_state, reports, hist>>

\* an edge on the data pin raises the interrupt of that pin
DtEdge ==
  /\ -MaxCount < r_value /\ r_value < MaxCount
  /\ irq_pending < MaxPending
  /\ pin_dt' = 1 - pin_dt
  /\ irq_pending' = irq_pending + 1
  /\ UNCHANGED <<pc, env, globals, outputs, main_frame, settings_frame,
                 edit_frame, test_frame, pin_clk, last_state, reports, hist>>

\* the handler registered on both pins: read both levels, compare the 2-bit
\* state with the previous one, add the table's step to the counter
ProcessRotaryPins ==
  /\ irq_pending > 0
  /\ LET new_state == PinState(pin_clk, pin_dt)
     IN  /\ r_value' = unbounded_range(r_value + transition(last_state,
                                                            new_state))
         /\ last_state' = new_state
  /\ irq_pending' = irq_pending - 1
  /\ UNCHANGED <<pc, moves, button_yellow, button_blue, globals, outputs,
                 main_frame, settings_frame, edit_frame, test_frame, pin_clk,
                 pin_dt, reports, hist>>

\* the encoder at rest in any of its four positions, the decoder constructed
InitDecoder ==
  /\ pc = "main_start"
  /\ r_value = 0
  /\ moves = 0
  /\ button_yellow = 1
  /\ button_blue = 1
  /\ g_frequency = 50
  /\ g_servo_min = 2500
  /\ g_servo_max = 8750
  /\ g_powered = FALSE
  /\ g_percent = 50
  /\ relay = 0
  /\ pwm_blue = PWM_OFF
  /\ pwm_green = PWM_OFF
  /\ pwm_servo_freq = 0
  /\ pwm_servo_duty = 0
  /\ main_which = 0
  /\ main_r_val_old = 0
  /\ settings_which = 0
  /\ settings_r_val_old = 0
  /\ settings_keep_going = FALSE
  /\ setting_min = 0
  /\ setting_max = 0
  /\ original_value = 0
  /\ value = 0
  /\ edit_r_val_old = 0
  /\ test_r_val_old = 0
  /\ test_keep_going = FALSE
  /\ pin_clk \in {0, 1}
  /\ pin_dt \in {0, 1}
  /\ irq_pending = 0
  /\ last_state = PinState(pin_clk, pin_dt)
  /\ yellow_unreported = FALSE
  /\ blue_unreported = FALSE
  /\ hist = NoHistory

\* the pins and the interrupt handler on their own
NextDecoder ==
  \/ ClkEdge
  \/ DtEdge
  \/ ProcessRotaryPins

SpecDecoder == InitDecoder /\ [][NextDecoder]_vars

(* ======================================================================= *)
(* Properties                                                              *)
(* ======================================================================= *)
Settings == <<g_frequency, g_servo_min, g_servo_max>>

\* the Settings field the settings-menu cursor selects
SelectedSetting ==
  IF settings_which = 0 THEN g_frequency
  ELSE IF settings_which = 1 THEN g_servo_min
  ELSE g_servo_max

\* an edit session (update_one_setting) is running
InEdit ==
  pc \in {"edit_yellow", "edit_yellow_wait", "edit_blue", "edit_blue_wait",
          "edit_rotary"}

\* the steps on which update_one_setting returns
CancelReturns == pc = "edit_yellow_wait" /\ pc' = "set_rotary"
OkayReturns == pc = "edit_blue_wait" /\ pc' = "set_rotary"

\* the poll point of the ServoTest loop: the head of "while keep_going"
TestPollPoint == pc = "test_yellow"

\* the steps of run_test that write the relay pin
RelayWritten ==
  \/ pc = "test_entry" /\ pc' = "test_yellow"
  \/ pc = "test_blue_wait" /\ pc' = "test_rotary"
  \/ pc = "test_exit" /\ pc' = "main_rotary"

\* servoMin + (percent/100) * (servoMax - servoMin) in exact arithmetic,
\* truncated to an integer
ExactDuty ==
  g_servo_min + (g_percent * (g_servo_max - g_servo_min)) \div 100

\* C1: during an edit session the initial value stays the value of the
\* field being edited, and ending the session with cancel returns exactly
\* that initial value, so no Settings field differs after the session.
C1_CancelReturnsInitial ==
  /\ [](InEdit => original_value = SelectedSetting)
  /\ [][CancelReturns => /\ SelectedSetting' = original_value
                         /\ Settings' = Settings]_vars

\* a cancel is about to return from a session in which the value was edited
C1_Witness ==
  pc = "edit_yellow_wait" /\ button_yellow = 1 /\ value # original_value

\* C2: a session starts at initial; every observed encoder delta replaces
\* value by value + delta saturated to [min, max] (the sum itself when it is
\* within the limits, the nearer limit otherwise); confirm returns that value,
\* which lies in [min, max].
C2_OkayReturnsClampedValue ==
  /\ [][pc = "edit_entry" /\ pc' = "edit_yellow" =>
          /\ value' = SelectedSetting
          /\ setting_min' <= value' /\ value' <= setting_max']_vars
  /\ [][pc = "edit_rotary" /\ pc' = "edit_yellow" =>
          LET delta == edit_r_val_old - r_value
              sum == value + delta
          IN  /\ setting_min <= value' /\ value' <= setting_max
              /\ (setting_min <= sum /\ sum <= setting_max => value' = sum)
              /\ (sum < setting_min => value' = setting_min)
              /\ (sum > setting_max => value' = setting_max)]_vars
  /\ [][OkayReturns => /\ SelectedSetting' = value
                       /\ setting_min <= value /\ value <= setting_max]_vars

\* a confirm is about to return a value that was saturated at the upper limit
C2_Witness ==
  /\ pc = "edit_blue_wait" /\ button_blue = 1
  /\ value = setting_max /\ original_value < setting_max

\* C3: the Settings change only on the return of an edit session ended by
\* confirm, and then only the field the settings-menu cursor selects changes.
C3_SettingsChangeOnlyOnConfirm ==
  [][Settings' # Settings =>
       /\ OkayReturns
       /\ settings_which # 0 => g_frequency' = g_frequency
       /\ settings_which # 1 => g_servo_min' = g_servo_min
       /\ settings_which # 2 => g_servo_max' = g_servo_max]_vars

\* a confirmed edit of the servo minimum has changed it, the rest is as set
C3_Witness ==
  g_servo_min # 2500 /\ g_frequency = 50 /\ g_servo_max = 8750

\* C4: the Settings always lie in their ranges, hence servoMin < servoMax.
C4_SettingsInRange ==
  /\ FREQUENCY_MIN <= g_frequency /\ g_frequency <= FREQUENCY_MAX
  /\ SERVO_MIN_MIN <= g_servo_min /\ g_servo_min <= SERVO_MIN_MAX
  /\ SERVO_MAX_MIN <= g_servo_max /\ g_servo_max <= SERVO_MAX_MAX
  /\ g_servo_min < g_servo_max

\* edits that overshot have left a setting at a limit of its range
C4_Witness ==
  g_frequency = FREQUENCY_MAX /\ g_servo_min = SERVO_MIN_MIN

\* C5 as stated: run_test writes the relay low for powered = false and high
\* only for powered = true.
C5_RelayLowWhenUnpowered ==
  [][RelayWritten => /\ ~g_powered' => relay' = 0
                     /\ relay' = 1 => g_powered']_vars

\* C5 as amended: run_test writes the relay high for powered = false (on
\* entry, on toggling power off, on exit) and low only for powered = true.
C5_RelayHighWhenUnpowered ==
  [][RelayWritten => (relay' = 1 <=> ~g_powered')]_vars

\* the power toggle has switched the servo on
C5_Witness == pc = "test_rotary" /\ g_powered /\ relay = 0

\* C6: at every poll point of the ServoTest loop the relay is high exactly
\* when powered = false, and the indicator is blue exactly when powered =
\* false and green exactly when powered = true.
C6_OutputsFollowPowered ==
  TestPollPoint =>
    /\ relay = 1 <=> ~g_powered
    /\ relay = 0 <=> g_powered
    /\ ~g_powered <=> (pwm_blue = PWM_ON /\ pwm_green = PWM_OFF)
    /\ g_powered <=> (pwm_green = PWM_ON /\ pwm_blue = PWM_OFF)

\* a poll point with the servo powered and the percentage moved
C6_Witness == TestPollPoint /\ g_powered /\ g_percent # 50

\* C7: when run_test returns to the main loop, powered = false, the relay is
\* at the power-off level and both indicators are off.
C7_ExitForcesPowerOff ==
  [][pc = "test_exit" /\ pc' = "main_rotary" =>
       /\ g_powered' = FALSE
       /\ relay' = relay_level(FALSE)
       /\ pwm_blue' = PWM_OFF
       /\ pwm_green' = PWM_OFF]_vars

\* the loop is left with the servo switched on by a toggle that came after
\* the cancel of the same iteration (which had turned green off)
C7_Witness ==
  pc = "test_exit" /\ g_powered /\ relay = 0 /\ pwm_green = PWM_ON

\* C8: every entry to ServoTest sets powered = false, percent = 50, the relay
\* to the power-off level, the PWM frequency to Settings.frequencyHz, and
\* takes the counter as it is now for the baseline of the first delta.
C8_EntryResetsSession ==
  [][pc = "test_entry" /\ pc' = "test_yellow" =>
       /\ g_powered' = FALSE
       /\ g_percent' = 50
       /\ relay' = relay_level(FALSE)
       /\ pwm_servo_freq' = g_frequency'
       /\ test_r_val_old' = r_value']_vars

\* an entry after a session that left another percentage and the encoder
\* away from its initial position
C8_Witness ==
  pc = "test_entry" /\ g_percent # 50 /\ r_value # 0

\* C9 as stated: at every poll point the duty last written is the exact
\* value truncated to an integer.
C9_DutyIsExactTruncation ==
  TestPollPoint => pwm_servo_duty = ExactDuty

\* C9 as amended: at every poll point the duty last written is the value
\* update_servo computes in single precision from the current percent and
\* Settings, which is the exact value truncated or one less.
C9_DutyIsCurrent ==
  TestPollPoint =>
    /\ pwm_servo_duty = duty(g_percent, g_servo_min, g_servo_max)
    /\ ExactDuty - 1 <= pwm_servo_duty /\ pwm_servo_duty <= ExactDuty

\* a poll point where rounding has made the duty one less than exact
C9_Witness ==
  TestPollPoint /\ pwm_servo_duty = ExactDuty - 1

\* C10: percent is in [0,100] in every state; a power toggle leaves percent
\* unchanged and a rotation leaves powered unchanged.
C10_PercentInRange ==
  /\ [](0 <= g_percent /\ g_percent <= 100)
  /\ [][pc = "test_blue_wait" /\ pc' = "test_rotary" =>
          g_percent' = g_percent /\ g_powered' = ~g_powered]_vars
  /\ [][pc = "test_rotary" /\ pc' # pc => g_powered' = g_powered]_vars

\* a poll point after a delta far beyond 100 and a power toggle
C10_Witness == TestPollPoint /\ g_percent = 100 /\ g_powered

\* the steps on which a polling loop reads the counter and applies the
\* delta: the rotary block of the main menu, of settings(), of
\* update_one_setting() and of run_test()
MainPolls == pc = "main_rotary" /\ pc' = "main_blue"
SettingsPolls == pc = "set_rotary" /\ pc' = "set_yellow"
EditPolls == pc = "edit_rotary" /\ pc' = "edit_yellow"
TestPolls == pc = "test_rotary" /\ pc' \in {"test_yellow", "test_exit"}

\* x limited to [lo, hi], by cases
Saturated(x, lo, hi) == IF x < lo THEN lo ELSE IF x > hi THEN hi ELSE x

\* C11 as stated: in every polling loop the delta applied is the newly read
\* counter value minus the previously observed one, so a net counter
\* increase of k raises the cursor, the edited value or percent by k before
\* clamping.
C11_DeltaIsNewMinusOld ==
  /\ [][MainPolls =>
          main_which' = Saturated(main_which + (r_value - main_r_val_old),
                                  0, 2)]_vars
  /\ [][SettingsPolls =>
          settings_which' =
            Saturated(settings_which + (r_value - settings_r_val_old),
                      0, 2)]_vars
  /\ [][EditPolls =>
          value' = Saturated(value + (r_value - edit_r_val_old),
                             setting_min, setting_max)]_vars
  /\ [][TestPolls =>
          g_percent' = Saturated(g_percent + (r_value - test_r_val_old),
                                 0, 100)]_vars

\* C11, amended: in every polling loop the delta applied is the previously
\* observed counter value minus the newly read one, so a net counter
\* increase of k lowers the cursor, the edited value or percent by k before
\* clamping (and a net decrease of k raises it by k); the newly read value
\* becomes the previously observed one.
C11_DeltaIsOldMinusNew ==
  /\ [][MainPolls =>
          /\ main_which' = Saturated(main_which + (main_r_val_old - r_value),
                                     0, 2)
          /\ main_r_val_old' = r_value]_vars
  /\ [][SettingsPolls =>
          /\ settings_which' =
               Saturated(settings_which + (settings_r_val_old - r_value),
                         0, 2)
          /\ settings_r_val_old' = r_value]_vars
  /\ [][EditPolls =>
          /\ value' = Saturated(value + (edit_r_val_old - r_value),
                                setting_min, setting_max)
          /\ edit_r_val_old' = r_value]_vars
  /\ [][TestPolls =>
          /\ g_percent' = Saturated(g_percent + (test_r_val_old - r_value),
                                    0, 100)
          /\ test_r_val_old' = r_value]_vars

\* an edit session has read a counter below its baseline and the value is
\* above the initial one
C11_Witness ==
  /\ InEdit
  /\ edit_r_val_old < hist.edit_base
  /\ value > original_value

\* C14: the main-menu cursor and the settings-menu cursor are in [0,2] in
\* every state, whatever the deltas, and settings() starts with its cursor
\* at 0 on every entry.
C14_CursorsInRange ==
  /\ [](main_which \in 0..2 /\ settings_which \in 0..2)
  /\ [][pc = "settings_entry" /\ pc' = "set_yellow" =>
          settings_which' = 0]_vars

\* the settings menu has applied one delta of BigStep and its cursor is at
\* the last entry
C14_Witness ==
  /\ pc = "set_yellow"
  /\ hist.settings_sum = BigStep
  /\ settings_which = 2

\* settings() is running and its cancel has been reported: keep_going is
\* False and the function has not returned yet
SettingsCancelled ==
  /\ pc \in {"set_blue", "set_blue_wait", "set_rotary", "edit_entry",
             "edit_yellow", "edit_yellow_wait", "edit_blue", "edit_blue_wait",
             "edit_rotary"}
  /\ ~settings_keep_going

\* C17: in the settings menu, once a cancel press has been reported, no
\* edit session is started and no Settings field changes before the return
\* to the main menu, even if blue is low when the same iteration polls it.
C17_CancelStartsNoEdit ==
  [][SettingsCancelled => pc' # "edit_entry" /\ Settings' = Settings]_vars

\* run_test() is running: from its first statement to its return
InTest ==
  pc \in {"test_yellow", "test_yellow_wait", "test_blue", "test_blue_wait",
          "test_rotary", "test_exit"}

\* C19: from power-up onward the relay line is at the servo-connected level
\* (the level written when powered becomes true) only inside run_test() with
\* powered = true; everywhere else it is at the power-off level.
C19_RelayConnectedOnlyWhenPowered ==
  relay = relay_level(TRUE) => InTest /\ g_powered

\* run_test() is running and its cancel has been reported: keep_going is
\* False and the function has not returned yet
TestCancelled ==
  /\ pc \in {"test_blue", "test_blue_wait", "test_rotary", "test_exit"}
  /\ ~test_keep_going

\* C20: in run_test(), once a cancel press has been reported, powered does
\* not become true, the relay is not driven to the servo-connected level and
\* no new duty is written before the session ends.
C20_CancelEndsPowerAndDuty ==
  [][TestCancelled =>
       /\ (g_powered' => g_powered)
       /\ (relay' = relay_level(TRUE) => relay = relay_level(TRUE))
       /\ pwm_servo_duty' = pwm_servo_duty]_vars

\* C12: in each polling loop the sum of the deltas applied (before clamping)
\* is the loop's baseline read minus its latest read, in magnitude the net
\* counter change between the two reads, wherever the encoder moved in
\* between: no step is lost or counted twice by that loop. No step of the
\* main thread changes the counter.
C12_DeltasSumToNetChange ==
  /\ [](/\ hist.main_sum = hist.main_base - main_r_val_old
        /\ hist.settings_sum = hist.settings_base - settings_r_val_old
        /\ hist.edit_sum = hist.edit_base - edit_r_val_old
        /\ hist.test_sum = hist.test_base - test_r_val_old)
  /\ [][pc' # pc => r_value' = r_value]_vars

\* an edit session that has applied deltas is blocked by a held button while
\* the counter has moved on since its latest read
C12_Witness ==
  /\ pc = "edit_blue_wait"
  /\ button_blue = 0
  /\ hist.edit_sum # 0
  /\ r_value # edit_r_val_old

\* button_pressed() is in its "while b.value() == 0" loop
YellowWaits ==
  pc \in {"help_yellow_wait", "set_yellow_wait", "edit_yellow_wait",
          "test_yellow_wait"}
BlueWaits ==
  pc \in {"main_blue_wait", "set_blue_wait", "edit_blue_wait",
          "test_blue_wait"}

\* the steps on which button_pressed() returns True
YellowReports == YellowWaits /\ pc' # pc
BlueReports == BlueWaits /\ pc' # pc

\* the steps on which a physical press begins
YellowPressBegins == button_yellow = 1 /\ button_yellow' = 0
BluePressBegins == button_blue = 1 /\ button_blue' = 0

\* C13 as stated: every physical press of either button, at any time, is
\* reported by exactly one True return of button_pressed: a True return is
\* for a press not reported before (never two), and when the next press
\* begins the previous one has been reported (never zero).
C13_EveryPressReportedOnce ==
  /\ [][YellowReports => yellow_unreported]_vars
  /\ [][BlueReports => blue_unreported]_vars
  /\ [][YellowPressBegins => ~yellow_unreported]_vars
  /\ [][BluePressBegins => ~blue_unreported]_vars

\* C13, amended: a physical press is reported by at most one True return of
\* button_pressed: every True return is for a press not reported before,
\* and marks it reported. A press that a poll reads low stays unreported
\* while button_pressed waits, and the wait ends only with a read of the
\* released line, which is the report. (A press that no poll reads low is
\* not reported.)
C13_PressReportedAtMostOnce ==
  /\ [][YellowReports =>
          yellow_unreported /\ ~yellow_unreported' /\ button_yellow = 1]_vars
  /\ [][BlueReports =>
          blue_unreported /\ ~blue_unreported' /\ button_blue = 1]_vars
  /\ [](YellowWaits => yellow_unreported)
  /\ [](BlueWaits => blue_unreported)
  /\ [][~yellow_unreported /\ yellow_unreported' => YellowPressBegins]_vars
  /\ [][~blue_unreported /\ blue_unreported' => BluePressBegins]_vars

\* run_test() has reported a blue press and switched the power on; the
\* button is still released and the press stays reported
C13_Witness ==
  /\ pc = "test_rotary"
  /\ g_powered
  /\ button_blue = 1
  /\ ~blue_unreported

\* C18: encoder steps made while a nested state is active (an edit session
\* under the settings menu; settings(), run_test() or the help screen under
\* the main menu) do not move the cursor of the enclosing menu: its first
\* poll after the return applies only the steps made outside the nested
\* state, so that each step goes to at most one of cursor, edited value and
\* percent.
C18_NestedStepsLeaveCursor ==
  /\ [][MainPolls =>
          main_which' =
            Saturated(main_which
                        + ((main_r_val_old - r_value) - hist.main_nested),
                      0, 2)]_vars
  /\ [][SettingsPolls =>
          settings_which' =
            Saturated(settings_which
                        + ((settings_r_val_old - r_value)
                             - hist.settings_nested),
                      0, 2)]_vars

\* the steps on which the interrupt handler runs
HandlerRuns == irq_pending' = irq_pending - 1

\* the number of pins whose level differs between two 2-bit states
PinsChanged(old, new) ==
  (IF old \div 2 # new \div 2 THEN 1 ELSE 0)
    + (IF old % 2 # new % 2 THEN 1 ELSE 0)

\* C15: every invocation of the edge-interrupt handler changes the counter
\* by exactly +1 or -1 when the new 2-bit pin state is one Gray-code step
\* from the previous one (one pin differs), whatever the counter's value,
\* also at and beyond min_val and max_val, and leaves it unchanged when the
\* state is repeated or two steps away; nothing else changes the counter.
C15_CounterStepsByOne ==
  /\ [][HandlerRuns =>
          LET n == PinsChanged(last_state, PinState(pin_clk, pin_dt))
          IN  /\ n = 1 => r_value' - r_value \in {-1, 1}
              /\ n # 1 => r_value' = r_value
              /\ last_state' = PinState(pin_clk, pin_dt)]_vars
  /\ [][r_value' # r_value => HandlerRuns]_vars

\* the counter has passed max_val and the handler is about to see a state
\* two steps away from the previous one
C15_Witness ==
  /\ r_value > MAX_VAL
  /\ irq_pending > 0
  /\ PinsChanged(last_state, PinState(pin_clk, pin_dt)) = 2

\* the loops of the two menus
InMainMenu == pc \in {"main_blue", "main_blue_wait", "main_rotary"}
InSettingsMenu ==
  pc \in {"set_yellow", "set_yellow_wait", "set_blue", "set_blue_wait",
          "set_rotary"}
InHelp == pc \in {"help_yellow", "help_yellow_wait"}

\* C16: with the main thread running and every pressed button released in
\* the end, a cancel press that is held until polled leads from the help
\* screen, from run_test() and from the settings menu to the main-menu loop
\* and from an edit session to the settings-menu loop; a nested state is
\* left only by the report of a button press, and the help screen only by
\* the report of a yellow press.
C16_CancelLeadsBack ==
  /\ (pc \in {"help_yellow_wait", "test_yellow_wait", "set_yellow_wait"})
       ~> InMainMenu
  /\ (pc = "edit_yellow_wait") ~> InSettingsMenu
  /\ [][InEdit /\ ~InEdit' => YellowReports \/ BlueReports]_vars
  /\ [][InHelp /\ ~InHelp' => YellowReports]_vars
  /\ [][~settings_keep_going' /\ settings_keep_going =>
          YellowReports]_vars
  /\ [][~test_keep_going' /\ test_keep_going => YellowReports]_vars

====
